---- MODULE Spec2Model ----
(***************************************************************************)
(* Model of the NSE layer pipeline of src/src/lib.rs: the KeyGenerator     *)
(* sequencing state machine and the Sealer / Unsealer wrappers, driving an *)
(* Accelerator (the GPU type of the `gpu` module, which is not part of the *)
(* sources at hand and is modelled from the specification).                *)
(***************************************************************************)
EXTENDS Integers, Sequences, FiniteSets, TLC

VARIABLES
    gpu_config,   \* the Config every Accelerator handle was built from (GPU::new)
    replica_id,   \* the replica id the caller uses for this session
    window_index, \* the window index the caller uses for this session
    kg,           \* the bare KeyGenerator, <<>> until constructed
    sealer,       \* the Sealer, <<>> until constructed
    unsealer,     \* the Unsealer, <<>> until constructed
    status,       \* per object: "none", "live", "assert_failed", "panicked",
                  \* "unreachable"
    ret,          \* per object: what its next() calls have returned, in order
    requested,    \* per object: num_nodes_window of the Config given to new()
                  \* (0 before construction)
    dropped,      \* per object: the Accelerator handle a failed new() dropped
    gens,         \* per window index: a KeyGenerator of its own for that window
    program,      \* the program text generate_nse_program returned, <<>> before
    combined,     \* a combine_layer call and its result, <<>> before
    batch_size    \* what the Accelerator's combine_batch_size() reports

vars == <<gpu_config, replica_id, window_index, kg, sealer, unsealer,
          status, ret, requested, dropped, gens, program, combined, batch_size>>

(* The variables the pipeline objects kg, sealer and unsealer do not touch. *)
aside == <<gens, program, combined, batch_size>>

----------------------------------------------------------------------------
(* Bounds                                                                  *)

MaxExpander == 2      \* num_expander_layers ranges over 0..MaxExpander
MaxButterfly == 1     \* num_butterfly_layers ranges over 0..MaxButterfly
MaxNodes == 2         \* num_nodes_window ranges over 1..MaxNodes
MaxExtra == 2         \* next() calls made after the generator is exhausted
MaxFailures == 1      \* Accelerator calls of a session that report a failure

(* The scalar field Fr, stood in for by the integers modulo a small prime. *)
FieldModulus == 3

COMBINE_BATCH_SIZE == 500000

Objects == {"kg", "sealer", "unsealer"}

(* The replica ids (Sha256Domain values) and window indices callers use. *)
Replicas == {0, 1}
Windows == {0, 1}

Node == 0 .. (FieldModulus - 1)

Configs ==
    [num_nodes_window : 1 .. MaxNodes,
     num_expander_layers : 0 .. MaxExpander,
     num_butterfly_layers : 0 .. MaxButterfly]

(* Layers of n nodes. *)
LayersOf(n) == [1 .. n -> Node]

(* The data layers a caller hands to a Sealer: the zero layer (Node::default) *)
(* and the layer counting 1, 2, ... in the field.                             *)
DataLayers(n) ==
    { [i \in 1 .. n |-> 0], [i \in 1 .. n |-> i % FieldModulus] }

(* Option<Layer> as returned by next(). *)
None == [some |-> FALSE, layer |-> <<>>]
Some(l) == [some |-> TRUE, layer |-> l]

----------------------------------------------------------------------------
(* The Accelerator (GPU), modelled from the specification.                 *)

(* NarrowStackedExpander::new: a handle keeps the Config it was built      *)
(* from, holds no resident layer and has served no call.                   *)
GPUNew(conf) ==
    [config |-> conf, resident |-> <<>>, calls |-> <<>>]

leaf_count(gpu) == gpu.config.num_nodes_window

(* Layer generation: deterministic in (replica id, window index, layer     *)
(* index, resident previous layer); the three operations differ.           *)
MaskLayer(n, r, w) ==
    [i \in 1 .. n |-> (r + 2 * w + i) % FieldModulus]

ExpanderLayer(prev, r, w, idx) ==
    [i \in 1 .. Len(prev) |->
        (prev[i] + prev[(i % Len(prev)) + 1] + idx + r + w) % FieldModulus]

ButterflyLayer(prev, r, w, idx) ==
    [i \in 1 .. Len(prev) |->
        (2 * prev[i] + prev[(i % Len(prev)) + 1] + idx + r + w + 1) % FieldModulus]

(* Combine: node-wise field addition of the resident key (encode) or       *)
(* subtraction of it (decode).                                              *)
KeyNode(key, i) == IF i <= Len(key) THEN key[i] ELSE 0

CombineNodes(segment, key, is_decode) ==
    [i \in 1 .. Len(segment) |->
        IF is_decode
        THEN (segment[i] - KeyNode(key, i) + FieldModulus) % FieldModulus
        ELSE (segment[i] + KeyNode(key, i)) % FieldModulus]

(* One served call: the handle afterwards and NSEResult<Layer>.  A failed  *)
(* call is recorded and leaves the resident layer as it was.               *)
Served(gpu, call, layer, fails) ==
    [gpu |-> [gpu EXCEPT !.calls = Append(@, call),
                         !.resident = IF fails THEN @ ELSE layer],
     ok |-> ~fails,
     layer |-> IF fails THEN <<>> ELSE layer]

CallRec(op, idx, ok) == [op |-> op, layer_index |-> idx, ok |-> ok]

gpu_generate_mask_layer(gpu, r, w, fails) ==
    Served(gpu, CallRec("mask", 1, ~fails),
           MaskLayer(leaf_count(gpu), r, w), fails)

gpu_generate_expander_layer(gpu, r, w, idx, fails) ==
    Served(gpu, CallRec("expander", idx, ~fails),
           ExpanderLayer(gpu.resident, r, w, idx), fails)

gpu_generate_butterfly_layer(gpu, r, w, idx, fails) ==
    Served(gpu, CallRec("butterfly", idx, ~fails),
           ButterflyLayer(gpu.resident, r, w, idx), fails)

(* The resident key layer from node `offset` on. *)
KeyFrom(key, offset) ==
    [i \in 1 .. (IF Len(key) > offset THEN Len(key) - offset ELSE 0) |->
        key[i + offset]]

(* combine_segment combines the segment with the resident key nodes from   *)
(* `offset` on and leaves the resident key layer in place.                 *)
gpu_combine_segment(gpu, offset, segment, is_decode, fails) ==
    [gpu |-> [gpu EXCEPT !.calls =
                 Append(@, CallRec(IF is_decode THEN "decode" ELSE "encode",
                                   offset, ~fails))],
     ok |-> ~fails,
     layer |-> IF fails THEN <<>>
               ELSE CombineNodes(segment, KeyFrom(gpu.resident, offset),
                                 is_decode)]

(* combine_batch_size: the chunk size the Accelerator prefers. *)
combine_batch_size(gpu) == batch_size

(* Variant: a layer longer than the batch size combined in two segments. *)
gpu_combine_layer_Batched(gpu, layer, is_decode, fails) ==
    LET b == combine_batch_size(gpu)
    IN  IF Len(layer) <= b
        THEN gpu_combine_segment(gpu, 0, layer, is_decode, fails)
        ELSE LET first == gpu_combine_segment(gpu, 0, SubSeq(layer, 1, b),
                                              is_decode, fails)
                 rest == gpu_combine_segment(first.gpu, b,
                                             SubSeq(layer, b + 1, Len(layer)),
                                             is_decode, fails)
             IN  [gpu |-> rest.gpu, ok |-> rest.ok,
                  layer |-> first.layer \o rest.layer]

(* How many of the calls the handle has served reported a failure. *)
FailedCalls(gpu) ==
    Cardinality({i \in 1 .. Len(gpu.calls) : ~gpu.calls[i].ok})

(* Default method of the trait: one combine_segment over the whole layer. *)
gpu_combine_layer(gpu, layer, is_decode, fails) ==
    gpu_combine_segment(gpu, 0, layer, is_decode, fails)

----------------------------------------------------------------------------
(* KeyGenerator                                                            *)

(* Variant: construction without the leaf-count check. *)
KeyGeneratorNew_Unchecked(conf, r, w, gpu) ==
    [ok |-> TRUE,
     self |-> <<[replica_id |-> r, window_index |-> w,
                 current_layer_index |-> 0, gpu |-> gpu]>>,
     dropped |-> <<>>]

(* KeyGenerator::new.  The assert_eq! aborts construction: no object is    *)
(* produced and the handle that was moved in is dropped as it is.          *)
KeyGeneratorNew(conf, r, w, gpu) ==
    IF conf.num_nodes_window # leaf_count(gpu)
    THEN [ok |-> FALSE, self |-> <<>>, dropped |-> <<gpu>>]
    ELSE [ok |-> TRUE,
          self |-> <<[replica_id |-> r, window_index |-> w,
                      current_layer_index |-> 0, gpu |-> gpu]>>,
          dropped |-> <<>>]

config(self) == self.gpu.config

(* Variant: len() reporting what is left instead of the configured total. *)
len_Remaining(self) ==
    config(self).num_expander_layers + config(self).num_butterfly_layers
        - self.current_layer_index

len(self) ==
    config(self).num_expander_layers + config(self).num_butterfly_layers

(* Variant: counting the layer in progress as still remaining. *)
layers_remaining_OffByOne(self) == len(self) - self.current_layer_index + 1

layers_remaining(self) == len(self) - self.current_layer_index

(* Variant: the first layer requested as an expander layer. *)
generate_mask_layer_AsExpander(self, fails) ==
    gpu_generate_expander_layer(self.gpu, self.replica_id, self.window_index,
                                self.current_layer_index, fails)

generate_mask_layer(self, fails) ==
    gpu_generate_mask_layer(self.gpu, self.replica_id, self.window_index, fails)

generate_expander_layer(self, fails) ==
    gpu_generate_expander_layer(self.gpu, self.replica_id, self.window_index,
                                self.current_layer_index, fails)

generate_butterfly_layer(self, fails) ==
    gpu_generate_expander_layer(self.gpu, self.replica_id, self.window_index,
                                self.current_layer_index, fails)

combine_layer(self, layer, is_decode, fails) ==
    gpu_combine_layer(self.gpu, layer, is_decode, fails)

(* Option::unwrap on the NSEResult of an Accelerator call, inside next():  *)
(* Ok(layer) is returned as Some(layer), Err(_) panics.                    *)
Unwrap(self, g) ==
    [self |-> [self EXCEPT !.gpu = g.gpu],
     out |-> IF g.ok THEN Some(g.layer) ELSE None,
     outcome |-> IF g.ok THEN "returned" ELSE "panicked"]

(* Variant: the butterfly layers left out of the total. *)
last_index_ExpanderOnly(self) == config(self).num_expander_layers

last_index(self) ==
    config(self).num_expander_layers + config(self).num_butterfly_layers

(* Variant: the exhaustion test written with > instead of >=. *)
Dispatch_StrictCheck(self) ==
    LET index == self.current_layer_index + 1
    IN  IF self.current_layer_index > last_index(self) THEN "done"
        ELSE IF index = 1 THEN "mask"
        ELSE IF index <= config(self).num_expander_layers THEN "expander"
        ELSE IF index <= last_index(self) THEN "butterfly"
        ELSE "unreachable"

(* Variant: the expander phase counted as if the mask step used no slot. *)
Dispatch_NoMaskSlot(self) ==
    LET index == self.current_layer_index + 1
    IN  IF self.current_layer_index >= last_index(self) THEN "done"
        ELSE IF index = 1 THEN "mask"
        ELSE IF index <= config(self).num_expander_layers + 1 THEN "expander"
        ELSE IF index <= last_index(self) THEN "butterfly"
        ELSE "unreachable"

(* The branch next() takes from state `self`: the chain of tests on the    *)
(* index, `index` being current_layer_index after its increment.          *)
Dispatch(self) ==
    LET index == self.current_layer_index + 1
    IN  IF self.current_layer_index >= last_index(self) THEN "done"
        ELSE IF index = 1 THEN "mask"
        ELSE IF index <= config(self).num_expander_layers THEN "expander"
        ELSE IF index <= last_index(self) THEN "butterfly"
        ELSE "unreachable"

(* Variant: an exhausted generator starting over. *)
KeyGeneratorNext_Restart(self, fails) ==
    LET stepped == [self EXCEPT !.current_layer_index = @ + 1]
        branch == Dispatch(self)
    IN  IF branch = "done"
        THEN [self |-> [self EXCEPT !.current_layer_index = 0],
              out |-> None, outcome |-> "returned"]
        ELSE IF branch = "mask"
        THEN Unwrap(stepped, generate_mask_layer(stepped, fails))
        ELSE IF branch = "expander"
        THEN Unwrap(stepped, generate_expander_layer(stepped, fails))
        ELSE IF branch = "butterfly"
        THEN Unwrap(stepped, generate_butterfly_layer(stepped, fails))
        ELSE [self |-> stepped, out |-> None, outcome |-> "unreachable"]

(* Variant: the increment made before the exhaustion test. *)
KeyGeneratorNext_CountsOn(self, fails) ==
    LET stepped == [self EXCEPT !.current_layer_index = @ + 1]
        branch == Dispatch(self)
    IN  IF branch = "done"
        THEN [self |-> stepped, out |-> None, outcome |-> "returned"]
        ELSE IF branch = "mask"
        THEN Unwrap(stepped, generate_mask_layer(stepped, fails))
        ELSE IF branch = "expander"
        THEN Unwrap(stepped, generate_expander_layer(stepped, fails))
        ELSE IF branch = "butterfly"
        THEN Unwrap(stepped, generate_butterfly_layer(stepped, fails))
        ELSE [self |-> stepped, out |-> None, outcome |-> "unreachable"]

(* Iterator::next for KeyGenerator.  `fails` is whether the Accelerator    *)
(* call this step issues, if any, reports an error.                        *)
KeyGeneratorNext(self, fails) ==
    LET stepped == [self EXCEPT !.current_layer_index = @ + 1]
        branch == Dispatch(self)
    IN  IF branch = "done"
        THEN [self |-> self, out |-> None, outcome |-> "returned"]
        ELSE IF branch = "mask"
        THEN Unwrap(stepped, generate_mask_layer(stepped, fails))
        ELSE IF branch = "expander"
        THEN Unwrap(stepped, generate_expander_layer(stepped, fails))
        ELSE IF branch = "butterfly"
        THEN Unwrap(stepped, generate_butterfly_layer(stepped, fails))
        ELSE [self |-> stepped, out |-> None, outcome |-> "unreachable"]

----------------------------------------------------------------------------
(* Sealer and Unsealer                                                     *)

SealerNew(conf, r, w, original_data, gpu) ==
    LET k == KeyGeneratorNew(conf, r, w, gpu)
    IN  IF k.ok
        THEN [ok |-> TRUE,
              self |-> <<[original_data |-> original_data,
                          key_generator |-> k.self[1]]>>,
              dropped |-> <<>>]
        ELSE [ok |-> FALSE, self |-> <<>>, dropped |-> k.dropped]

UnsealerNew(conf, r, w, sealed_data, gpu) ==
    LET k == KeyGeneratorNew(conf, r, w, gpu)
    IN  IF k.ok
        THEN [ok |-> TRUE,
              self |-> <<[sealed_data |-> sealed_data,
                          key_generator |-> k.self[1]]>>,
              dropped |-> <<>>]
        ELSE [ok |-> FALSE, self |-> <<>>, dropped |-> k.dropped]

(* Variant: the last key layer handed out raw, never combined. *)
SealerNext_RawLast(self, failsGen, failsCombine) ==
    LET k == KeyGeneratorNext(self.key_generator, failsGen)
        after == [self EXCEPT !.key_generator = k.self]
    IN  IF k.outcome # "returned"
        THEN [self |-> after, out |-> None, outcome |-> k.outcome]
        ELSE [self |-> after, out |-> k.out, outcome |-> "returned"]

(* Variant: the combine substituted one step too early as well. *)
SealerNext_CombineEarly(self, failsGen, failsCombine) ==
    LET k == KeyGeneratorNext(self.key_generator, failsGen)
        after == [self EXCEPT !.key_generator = k.self]
    IN  IF k.outcome # "returned"
        THEN [self |-> after, out |-> None, outcome |-> k.outcome]
        ELSE IF k.out.some
        THEN IF layers_remaining(k.self) <= 1
             THEN LET c == Unwrap(k.self,
                                  combine_layer(k.self, self.original_data,
                                                FALSE, failsCombine))
                  IN  [self |-> [self EXCEPT !.key_generator = c.self],
                       out |-> c.out, outcome |-> c.outcome]
             ELSE [self |-> after, out |-> k.out, outcome |-> "returned"]
        ELSE [self |-> after, out |-> None, outcome |-> "returned"]

(* Iterator::next for Sealer.  `failsGen` is whether the key generator's   *)
(* Accelerator call fails, `failsCombine` whether the combine call does.   *)
SealerNext(self, failsGen, failsCombine) ==
    LET k == KeyGeneratorNext(self.key_generator, failsGen)
        after == [self EXCEPT !.key_generator = k.self]
    IN  IF k.outcome # "returned"
        THEN [self |-> after, out |-> None, outcome |-> k.outcome]
        ELSE IF k.out.some
        THEN IF layers_remaining(k.self) = 0
             THEN LET c == Unwrap(k.self,
                                  combine_layer(k.self, self.original_data,
                                                FALSE, failsCombine))
                  IN  [self |-> [self EXCEPT !.key_generator = c.self],
                       out |-> c.out, outcome |-> c.outcome]
             ELSE [self |-> after, out |-> k.out, outcome |-> "returned"]
        ELSE [self |-> after, out |-> None, outcome |-> "returned"]

(* Variant: the Unsealer combining in the encode direction. *)
UnsealerNext_Encode(self, failsGen, failsCombine) ==
    LET k == KeyGeneratorNext(self.key_generator, failsGen)
        after == [self EXCEPT !.key_generator = k.self]
    IN  IF k.outcome # "returned"
        THEN [self |-> after, out |-> None, outcome |-> k.outcome]
        ELSE IF k.out.some
        THEN IF layers_remaining(k.self) = 0
             THEN LET c == Unwrap(k.self,
                                  combine_layer(k.self, self.sealed_data,
                                                FALSE, failsCombine))
                  IN  [self |-> [self EXCEPT !.key_generator = c.self],
                       out |-> c.out, outcome |-> c.outcome]
             ELSE [self |-> after, out |-> k.out, outcome |-> "returned"]
        ELSE [self |-> after, out |-> None, outcome |-> "returned"]

(* Iterator::next for Unsealer. *)
UnsealerNext(self, failsGen, failsCombine) ==
    LET k == KeyGeneratorNext(self.key_generator, failsGen)
        after == [self EXCEPT !.key_generator = k.self]
    IN  IF k.outcome # "returned"
        THEN [self |-> after, out |-> None, outcome |-> k.outcome]
        ELSE IF k.out.some
        THEN IF layers_remaining(k.self) = 0
             THEN LET c == Unwrap(k.self,
                                  combine_layer(k.self, self.sealed_data,
                                                TRUE, failsCombine))
                  IN  [self |-> [self EXCEPT !.key_generator = c.self],
                       out |-> c.out, outcome |-> c.outcome]
             ELSE [self |-> after, out |-> k.out, outcome |-> "returned"]
        ELSE [self |-> after, out |-> None, outcome |-> "returned"]

(* ExactSizeIterator::len for Sealer and Unsealer. *)
sealer_len(self) == len(self.key_generator)

unsealer_len(self) == len(self.key_generator)

----------------------------------------------------------------------------
(* The state machine: a caller that builds the objects and steps them.     *)

(* The KeyGenerator inside object o (defined once o is constructed). *)
KG(o) ==
    IF o = "kg" THEN kg[1]
    ELSE IF o = "sealer" THEN sealer[1].key_generator
    ELSE unsealer[1].key_generator

(* Object o as an Option: <<>> or <<the object>>. *)
Obj(o) ==
    IF o = "kg" THEN kg ELSE IF o = "sealer" THEN sealer ELSE unsealer

Built(o) == status[o] \in {"live", "panicked", "unreachable"}

(* The Accelerator calls of the session that reported a failure so far,    *)
(* over all handles; a further call may fail while fewer than MaxFailures  *)
(* have.                                                                   *)
FaultsOf(opt) == IF opt = <<>> THEN 0 ELSE FailedCalls(opt[1].gpu)

FaultsOfWrapper(opt) ==
    IF opt = <<>> THEN 0 ELSE FailedCalls(opt[1].key_generator.gpu)

RECURSIVE FaultsOfGens(_)
FaultsOfGens(ws) ==
    IF ws = {} THEN 0
    ELSE LET w == CHOOSE v \in ws : TRUE
         IN  FaultsOf(gens[w].self) + FaultsOfGens(ws \ {w})

Faults ==
    FaultsOf(kg) + FaultsOfWrapper(sealer) + FaultsOfWrapper(unsealer)
        + FaultsOfGens(Windows)

MayFail(fails) == fails => Faults < MaxFailures

(* The calls of next() made on object o: those that returned and those    *)
(* that panicked, each of the latter on one failed Accelerator call.       *)
NextCalls(o) == Len(ret[o]) + FailedCalls(KG(o).gpu)

(* The caller may call next() again, also after a call that panicked (the  *)
(* object outlives the unwinding): bounded to len() + MaxExtra calls.      *)
MayStep(o) ==
    /\ status[o] \in {"live", "panicked"}
    /\ NextCalls(o) < len(KG(o)) + MaxExtra

(* The layers a Sealer returned from its combine step, if any. *)
SealedOutputs ==
    IF Built("sealer")
    THEN {ret["sealer"][i].layer : i \in
             {j \in 1 .. Len(ret["sealer"]) :
                 /\ ret["sealer"][j].some
                 /\ ret["sealer"][j].index = len(KG("sealer"))}}
    ELSE {}

(* What a call of next() on object o leaves behind: a call that returns   *)
(* adds its value to ret[o], with the current_layer_index `index` the     *)
(* key generator has on return; a call that panics returns nothing.       *)
After(o, r, index) ==
    /\ status' = [status EXCEPT ![o] =
                    IF r.outcome = "returned" THEN "live" ELSE r.outcome]
    /\ ret' = [ret EXCEPT ![o] =
                    IF r.outcome = "returned"
                    THEN Append(@, [some |-> r.out.some, layer |-> r.out.layer,
                                    index |-> index])
                    ELSE @]
    /\ UNCHANGED <<requested, dropped>>

(* What new() on object o leaves behind. *)
Constructed(o, conf, r) ==
    /\ status' = [status EXCEPT ![o] =
                    IF r.ok THEN "live" ELSE "assert_failed"]
    /\ requested' = [requested EXCEPT ![o] = conf.num_nodes_window]
    /\ dropped' = [dropped EXCEPT ![o] = r.dropped]

(* A window for which no KeyGenerator has been built. *)
NoGenerator == [status |-> "none", self |-> <<>>, ret |-> <<>>]

Init ==
    /\ gpu_config \in Configs
    /\ replica_id \in Replicas
    /\ window_index \in Windows
    /\ kg = <<>>
    /\ sealer = <<>>
    /\ unsealer = <<>>
    /\ status = [o \in Objects |-> "none"]
    /\ ret = [o \in Objects |-> <<>>]
    /\ requested = [o \in Objects |-> 0]
    /\ dropped = [o \in Objects |-> <<>>]
    /\ gens = [w \in Windows |-> NoGenerator]
    /\ program = <<>>
    /\ combined = <<>>
    /\ batch_size = COMBINE_BATCH_SIZE

(* KeyGenerator::new on a fresh Accelerator handle; the caller audits a    *)
(* Sealer against a bare KeyGenerator, or round-trips through an Unsealer. *)
KeyGeneratorNewAct ==
    /\ status["kg"] = "none"
    /\ status["unsealer"] = "none"
    /\ \E conf \in Configs :
          LET r == KeyGeneratorNew(conf, replica_id, window_index,
                                   GPUNew(gpu_config))
          IN  /\ kg' = r.self
              /\ Constructed("kg", conf, r)
    /\ UNCHANGED <<gpu_config, replica_id, window_index, sealer, unsealer, ret,
                 aside>>

SealerNewAct ==
    /\ status["sealer"] = "none"
    /\ \E conf \in Configs :
       \E data \in DataLayers(gpu_config.num_nodes_window) :
          LET r == SealerNew(conf, replica_id, window_index, data,
                             GPUNew(gpu_config))
          IN  /\ sealer' = r.self
              /\ Constructed("sealer", conf, r)
    /\ UNCHANGED <<gpu_config, replica_id, window_index, kg, unsealer, ret,
                 aside>>

UnsealerNewAct ==
    /\ status["unsealer"] = "none"
    /\ status["kg"] = "none"
    /\ \E conf \in Configs :
       \E data \in DataLayers(gpu_config.num_nodes_window) \cup SealedOutputs :
          LET r == UnsealerNew(conf, replica_id, window_index, data,
                               GPUNew(gpu_config))
          IN  /\ unsealer' = r.self
              /\ Constructed("unsealer", conf, r)
    /\ UNCHANGED <<gpu_config, replica_id, window_index, kg, sealer, ret,
                 aside>>

KeyGeneratorNextAct ==
    /\ MayStep("kg")
    /\ \E fails \in BOOLEAN :
          LET r == KeyGeneratorNext(kg[1], fails)
          IN  /\ MayFail(fails)
              /\ kg' = <<r.self>>
              /\ After("kg", r, r.self.current_layer_index)
    /\ UNCHANGED <<gpu_config, replica_id, window_index, sealer, unsealer,
                 aside>>

SealerNextAct ==
    /\ MayStep("sealer")
    /\ \E failsGen \in BOOLEAN, failsCombine \in BOOLEAN :
          LET r == SealerNext(sealer[1], failsGen, failsCombine)
          IN  /\ MayFail(failsGen \/ failsCombine)
              /\ sealer' = <<r.self>>
              /\ After("sealer", r, r.self.key_generator.current_layer_index)
    /\ UNCHANGED <<gpu_config, replica_id, window_index, kg, unsealer,
                 aside>>

UnsealerNextAct ==
    /\ MayStep("unsealer")
    /\ \E failsGen \in BOOLEAN, failsCombine \in BOOLEAN :
          LET r == UnsealerNext(unsealer[1], failsGen, failsCombine)
          IN  /\ MayFail(failsGen \/ failsCombine)
              /\ unsealer' = <<r.self>>
              /\ After("unsealer", r, r.self.key_generator.current_layer_index)
    /\ UNCHANGED <<gpu_config, replica_id, window_index, kg, sealer,
                 aside>>

Next ==
    \/ KeyGeneratorNewAct
    \/ SealerNewAct
    \/ UnsealerNewAct
    \/ KeyGeneratorNextAct
    \/ SealerNextAct
    \/ UnsealerNextAct

Spec == Init /\ [][Next]_vars

----------------------------------------------------------------------------
(* Vocabulary of the properties                                            *)

E == gpu_config.num_expander_layers
B == gpu_config.num_butterfly_layers
N == gpu_config.num_nodes_window

(* The positions in ret[o] that hold an item, and whether o has signalled  *)
(* completion (returned None).                                             *)
Items(o) == {i \in 1 .. Len(ret[o]) : ret[o][i].some}
Completed(o) == \E i \in 1 .. Len(ret[o]) : ~ret[o][i].some
LastItem(o) == CHOOSE i \in Items(o) : \A j \in Items(o) : j <= i

(* The operations the Accelerator of object o has served, in order. *)
Calls(o) == KG(o).gpu.calls
Ops(o) == [i \in 1 .. Len(Calls(o)) |-> Calls(o)[i].op]

Repeat(x, n) == [i \in 1 .. n |-> x]

(* The Accelerator of object o has served every call made so far. *)
Faultless(o) == FailedCalls(KG(o).gpu) = 0

(* A step of object o: a call of next() on it, however it ends (a call     *)
(* that returns extends ret[o], a call that panics has logged its failed   *)
(* Accelerator call).                                                      *)
StepOf(o) ==
    /\ Built(o)
    /\ (ret'[o] # ret[o] \/ Obj(o)' # Obj(o))

----------------------------------------------------------------------------
(* C1: a fresh KeyGenerator returns an item on exactly its first E + B     *)
(* calls of next() and None on call E + B + 1 and on every later call; no  *)
(* call ends in the unreachable!() branch.  This is the run in which the   *)
(* Accelerator serves every call (a call whose request fails panics, see   *)
(* C10 and C11); in every run no item follows a None and there are at most *)
(* E + B items.                                                            *)
C1_ItemCount ==
    Built("kg") =>
        /\ status["kg"] # "unreachable"
        /\ Faultless("kg") =>
              \A i \in 1 .. Len(ret["kg"]) : ret["kg"][i].some <=> (i <= E + B)
        /\ Cardinality(Items("kg")) <= E + B
        /\ \A i \in 1 .. Len(ret["kg"]) :
              ~ret["kg"][i].some =>
                  \A j \in i .. Len(ret["kg"]) : ~ret["kg"][j].some

C1_Witness ==
    /\ Built("kg")
    /\ Faultless("kg")
    /\ E >= 1
    /\ B >= 1
    /\ Len(ret["kg"]) = E + B + 2
    /\ ~ret["kg"][E + B + 1].some
    /\ ~ret["kg"][E + B + 2].some

(* C2 as stated, for the run in which the Accelerator serves every call:   *)
(* the first item is the mask layer and the last item before completion    *)
(* comes from a step whose current_layer_index is in (E, E+B].             *)
C2_Orig ==
    (Built("kg") /\ Faultless("kg") /\ Items("kg") # {}) =>
        /\ Ops("kg")[1] = "mask"
        /\ ret["kg"][1].layer = MaskLayer(N, replica_id, window_index)
        /\ Completed("kg") =>
              ret["kg"][LastItem("kg")].index \in (E + 1) .. (E + B)

(* C2 as amended, for the same run: the first item is the mask layer, and  *)
(* when B >= 1 the                                                         *)
(* last item before completion comes from a step whose current_layer_index *)
(* is in (E, E+B]; with B = 0 the last item is the one of index E.         *)
C2_FirstAndLast ==
    (Built("kg") /\ Faultless("kg") /\ Items("kg") # {}) =>
        /\ Ops("kg")[1] = "mask"
        /\ ret["kg"][1].layer = MaskLayer(N, replica_id, window_index)
        /\ Completed("kg") =>
              /\ ret["kg"][LastItem("kg")].index = E + B
              /\ B >= 1 => ret["kg"][LastItem("kg")].index \in (E + 1) .. (E + B)

C2_Witness ==
    /\ Built("kg")
    /\ Faultless("kg")
    /\ E >= 1
    /\ B >= 1
    /\ Completed("kg")
    /\ Cardinality(Items("kg")) >= 2

(* C3 as stated, for Configs with E >= 1 (so that the mask step, index 1,  *)
(* is not in (E, E+B]): the step of each index i in (E, E+B] asks the      *)
(* Accelerator for generate_butterfly_layer with layer_index i.            *)
C3_Orig ==
    \A o \in Objects :
        (Built(o) /\ E >= 1) =>
            \A i \in ((E + 1) .. (E + B)) \cap (1 .. Len(Calls(o))) :
                /\ Calls(o)[i].op = "butterfly"
                /\ Calls(o)[i].layer_index = i

(* C4 as stated, for Configs with E >= 1 and B >= 1: over a complete run   *)
(* the Accelerator serves one mask call, then E expander calls, then B     *)
(* butterfly calls.                                                        *)
C4_Orig ==
    (Built("kg") /\ Completed("kg") /\ E >= 1 /\ B >= 1) =>
        Ops("kg") = <<"mask">> \o Repeat("expander", E) \o Repeat("butterfly", B)

(* C5: layers_remaining() is (E + B) - current_layer_index in every state, *)
(* it is 0 exactly when the next step returns None, and every step that    *)
(* returns an item lowers it by exactly 1.                                 *)
C5_LayersRemaining ==
    /\ [](\A o \in Objects :
            Built(o) =>
                /\ layers_remaining(KG(o)) = (E + B) - KG(o).current_layer_index
                /\ layers_remaining(KG(o)) = 0
                      <=> ~KeyGeneratorNext(KG(o), FALSE).out.some)
    /\ [][\A o \in Objects :
            (/\ StepOf(o)
             /\ Len(ret'[o]) = Len(ret[o]) + 1
             /\ ret'[o][Len(ret'[o])].some)
            => layers_remaining(KG(o))' = layers_remaining(KG(o)) - 1]_vars

C5_Witness ==
    \E o \in Objects :
        /\ Built(o)
        /\ E + B >= 2
        /\ Cardinality(Items(o)) = E + B
        /\ Completed(o)
        /\ layers_remaining(KG(o)) = 0

(* C6: a Sealer and a bare KeyGenerator built with the same parameters on  *)
(* identical Accelerators return the same value at every step but step     *)
(* E + B, where the Sealer returns its data encoded under the layer the    *)
(* KeyGenerator returns there (both Accelerators serving every call).      *)
C6_SealerVsKeyGenerator ==
    (Built("kg") /\ Built("sealer") /\ Faultless("kg") /\ Faultless("sealer")) =>
        /\ \A i \in 1 .. Len(ret["kg"]) :
              (i <= Len(ret["sealer"]) /\ i # E + B)
                  => ret["sealer"][i] = ret["kg"][i]
        /\ (E + B >= 1 /\ Len(ret["kg"]) >= E + B /\ Len(ret["sealer"]) >= E + B)
              => /\ ret["sealer"][E + B].some
                 /\ ret["sealer"][E + B].layer =
                       CombineNodes(sealer[1].original_data,
                                    ret["kg"][E + B].layer, FALSE)

C6_Witness ==
    /\ Built("kg")
    /\ Built("sealer")
    /\ Faultless("kg")
    /\ Faultless("sealer")
    /\ E + B >= 3
    /\ Len(ret["kg"]) >= E + B
    /\ Len(ret["sealer"]) >= E + B
    /\ ret["sealer"][E + B].layer # ret["kg"][E + B].layer
    /\ ret["sealer"][E + B].layer # sealer[1].original_data

(* C7: an Unsealer built with the same parameters and given the layer a    *)
(* Sealer returned last returns, as its own last item, the Sealer's data   *)
(* (both Accelerators serving every call).                                 *)
C7_RoundTrip ==
    (/\ Built("sealer")
     /\ Built("unsealer")
     /\ Faultless("sealer")
     /\ Faultless("unsealer")
     /\ E + B >= 1
     /\ Len(ret["sealer"]) >= E + B
     /\ Len(ret["unsealer"]) >= E + B
     /\ unsealer[1].sealed_data = ret["sealer"][E + B].layer)
    => /\ ret["unsealer"][E + B].some
       /\ ret["unsealer"][E + B].layer = sealer[1].original_data

C7_Witness ==
    /\ Built("sealer")
    /\ Built("unsealer")
    /\ Faultless("sealer")
    /\ Faultless("unsealer")
    /\ E + B >= 2
    /\ Len(ret["sealer"]) >= E + B
    /\ Len(ret["unsealer"]) >= E + B
    /\ unsealer[1].sealed_data = ret["sealer"][E + B].layer
    /\ unsealer[1].sealed_data # sealer[1].original_data
    /\ ret["unsealer"][E + B].layer = sealer[1].original_data

(* C8: new() with a Config whose num_nodes_window differs from the         *)
(* Accelerator's leaf_count() aborts: no object is produced, nothing is    *)
(* ever returned, and the handle was asked for no generation or combine.   *)
C8_ConfigMismatch ==
    \A o \in Objects :
        (requested[o] # 0 /\ requested[o] # leaf_count(GPUNew(gpu_config))) =>
            /\ status[o] = "assert_failed"
            /\ Obj(o) = <<>>
            /\ ret[o] = <<>>
            /\ dropped[o] # <<>>
            /\ dropped[o][1].calls = <<>>

C8_Witness ==
    \E o \in Objects :
        /\ requested[o] # 0
        /\ requested[o] # N
        /\ status[o] = "assert_failed"

(* C9: len() of a KeyGenerator, Sealer or Unsealer is E + B in every       *)
(* state, whatever has been consumed.                                      *)
C9_Len ==
    /\ Built("kg") => len(kg[1]) = E + B
    /\ Built("sealer") => sealer_len(sealer[1]) = E + B
    /\ Built("unsealer") => unsealer_len(unsealer[1]) = E + B

C9_Witness ==
    /\ Built("sealer")
    /\ Built("unsealer")
    /\ E + B >= 2
    /\ Completed("sealer")
    /\ unsealer[1].key_generator.current_layer_index = 1
    /\ sealer_len(sealer[1]) = E + B

(* C10 as stated: a step whose Accelerator call fails leaves               *)
(* current_layer_index as it was before the step.                          *)
C10_Orig ==
    [][\A o \in Objects :
          (StepOf(o) /\ status'[o] = "panicked" /\ Obj(o)' # Obj(o))
              => KG(o)'.current_layer_index = KG(o).current_layer_index]_vars

(* C11 as stated: a failure the Accelerator reports during a step reaches  *)
(* the caller of that step as an error value; the step neither aborts nor  *)
(* signals completion in its place.                                        *)
C11_Orig ==
    \A o \in Objects :
        (Built(o) /\ \E i \in 1 .. Len(Calls(o)) : ~Calls(o)[i].ok)
            => status[o] # "panicked"

----------------------------------------------------------------------------
(* The key layers of the session, as a KeyGenerator run on its own with an *)
(* Accelerator that never fails produces them.                             *)

FreshKeyGenerator ==
    KeyGeneratorNew(gpu_config, replica_id, window_index,
                    GPUNew(gpu_config)).self[1]

RECURSIVE KeyRun(_, _)
KeyRun(self, n) ==
    IF n = 0 THEN self
    ELSE KeyGeneratorNext(KeyRun(self, n - 1), FALSE).self

KeyLayer(i) == KeyGeneratorNext(KeyRun(FreshKeyGenerator, i - 1), FALSE).out.layer

Data(o) ==
    IF o = "sealer" THEN sealer[1].original_data ELSE unsealer[1].sealed_data

(* C12: a Sealer and an Unsealer each return exactly E + B items; item     *)
(* E + B is the owned data combined under the last key layer (encode for   *)
(* the Sealer, decode for the Unsealer) and every earlier item is the key  *)
(* layer of its step (the Accelerator serving every call).                 *)
C12_WrapperItems ==
    \A o \in {"sealer", "unsealer"} :
        (Built(o) /\ Faultless(o)) =>
            \A i \in 1 .. Len(ret[o]) :
                /\ ret[o][i].some <=> (i <= E + B)
                /\ i < E + B => ret[o][i].layer = KeyLayer(i)
                /\ i = E + B =>
                      ret[o][i].layer =
                          CombineNodes(Data(o), KeyLayer(E + B), o = "unsealer")

C12_Witness ==
    /\ Built("sealer")
    /\ Built("unsealer")
    /\ Faultless("sealer")
    /\ Faultless("unsealer")
    /\ E + B >= 3
    /\ Completed("sealer")
    /\ Completed("unsealer")
    /\ ret["sealer"][E + B].layer # KeyLayer(E + B)
    /\ ret["unsealer"][E + B].layer # KeyLayer(E + B)
    /\ ret["unsealer"][E + B].layer # ret["sealer"][E + B].layer

(* C15: current_layer_index stays within 0 .. E + B, and every step leaves *)
(* it as it is or raises it by exactly 1; nothing lowers or resets it.     *)
C15_IndexMonotone ==
    /\ [](\A o \in Objects :
            Built(o) => KG(o).current_layer_index \in 0 .. (E + B))
    /\ [][\A o \in Objects :
            StepOf(o) =>
                \/ KG(o)'.current_layer_index = KG(o).current_layer_index
                \/ KG(o)'.current_layer_index = KG(o).current_layer_index + 1]_vars

C15_Witness ==
    \E o \in Objects :
        /\ Built(o)
        /\ E + B >= 3
        /\ KG(o).current_layer_index = E + B
        /\ Len(ret[o]) = E + B + MaxExtra

(* C16: no sequence of next() calls on a KeyGenerator, Sealer or Unsealer  *)
(* ends in, or is about to take, the unreachable!() branch.                *)
C16_NeverUnreachable ==
    \A o \in Objects :
        /\ status[o] # "unreachable"
        /\ Built(o) => Dispatch(KG(o)) # "unreachable"

C16_Witness ==
    /\ Built("kg")
    /\ Built("sealer")
    /\ E + B >= 1
    /\ Len(ret["kg"]) >= E + B + 1
    /\ Len(ret["sealer"]) >= E + B + 1
    /\ Dispatch(KG("kg")) = "done"
    /\ Dispatch(KG("sealer")) = "done"

(* C17: the step taken from a state goes through the expander branch       *)
(* exactly when its index (current_layer_index after the increment) is in  *)
(* 2 .. E, and then asks the Accelerator for an expander layer with that   *)
(* index; the step of index 1 is the mask step; a complete run in which    *)
(* the Accelerator serves every call has E - 1 items of expander-branch    *)
(* steps (none when E <= 1).                                               *)
C17_ExpanderPhase ==
    \A o \in Objects :
        Built(o) =>
            LET self == KG(o)
                index == self.current_layer_index + 1
                after == KeyGeneratorNext(self, FALSE).self
            IN  /\ Dispatch(self) = "expander" <=>
                      (index \in 2 .. E /\ index <= E + B)
                /\ Dispatch(self) = "expander" =>
                      /\ after.current_layer_index = index
                      /\ after.gpu.calls =
                            Append(self.gpu.calls, CallRec("expander", index, TRUE))
                /\ Dispatch(self) = "mask" <=> (index = 1 /\ E + B >= 1)
                /\ (Completed(o) /\ Faultless(o)) =>
                      Cardinality({i \in Items(o) : ret[o][i].index \in 2 .. E})
                          = IF E >= 1 THEN E - 1 ELSE 0

C17_Witness ==
    /\ Built("kg")
    /\ Faultless("kg")
    /\ E >= 2
    /\ B >= 1
    /\ Completed("kg")
    /\ Cardinality({i \in Items("kg") : ret["kg"][i].index \in 2 .. E}) = E - 1
    /\ Calls("kg")[2] = CallRec("expander", 2, TRUE)

(* The positions of the combine calls among the calls object o has issued. *)
CombineCalls(o) ==
    {i \in 1 .. Len(Calls(o)) : Calls(o)[i].op \in {"encode", "decode"}}

(* C19: a Sealer or Unsealer issues a combine call only as call number     *)
(* E + B + 1, after the E + B generation calls and with the key generator  *)
(* at layers_remaining() = 0, as one whole-layer call in the encode        *)
(* direction for a Sealer and the decode direction for an Unsealer; no run *)
(* has more than one, and a complete run with E + B >= 1 in which the      *)
(* Accelerator serves every call has exactly one, its item E + B being the *)
(* owned data combined under the resident key layer.                       *)
C19_CombineOnce ==
    \A o \in {"sealer", "unsealer"} :
        Built(o) =>
            /\ \A i \in CombineCalls(o) :
                  /\ i = E + B + 1
                  /\ \A j \in 1 .. (i - 1) :
                        Calls(o)[j].op \in {"mask", "expander", "butterfly"}
                  /\ Calls(o)[i].op = IF o = "sealer" THEN "encode" ELSE "decode"
                  /\ Calls(o)[i].layer_index = 0
                  /\ layers_remaining(KG(o)) = 0
            /\ Cardinality(CombineCalls(o)) <= 1
            /\ (Completed(o) /\ Faultless(o) /\ E + B >= 1) =>
                  /\ Cardinality(CombineCalls(o)) = 1
                  /\ ret[o][E + B].layer =
                        CombineNodes(Data(o), KG(o).gpu.resident, o = "unsealer")

C19_Witness ==
    /\ Built("sealer")
    /\ Built("unsealer")
    /\ Faultless("sealer")
    /\ Faultless("unsealer")
    /\ E + B >= 2
    /\ Completed("sealer")
    /\ Completed("unsealer")
    /\ CombineCalls("sealer") = {E + B + 1}
    /\ CombineCalls("unsealer") = {E + B + 1}
    /\ ret["sealer"][E + B].layer # sealer[1].original_data

(* C20: a call of next() on an exhausted KeyGenerator, Sealer or Unsealer  *)
(* returns None and leaves the whole object as it was: no Accelerator call *)
(* is issued and current_layer_index, replica id, window index and the     *)
(* owned data are unchanged.                                               *)
C20_ExhaustedFrame ==
    [][\A o \in Objects :
          (StepOf(o) /\ layers_remaining(KG(o)) = 0) =>
              /\ Obj(o)' = Obj(o)
              /\ status'[o] = "live"
              /\ Len(ret'[o]) = Len(ret[o]) + 1
              /\ ~ret'[o][Len(ret'[o])].some]_vars

C20_Witness ==
    \E o \in {"sealer", "unsealer"} :
        /\ Built(o)
        /\ E + B >= 2
        /\ Len(ret[o]) = E + B + 2
        /\ ~ret[o][E + B + 1].some
        /\ ~ret[o][E + B + 2].some
        /\ Len(Calls(o)) = E + B + 1

-----------------------------------------------------------------------------
(* Two windows processed side by side: one KeyGenerator per window index,  *)
(* each constructed over an Accelerator handle of its own.                 *)

(* KeyGenerator::new for window w, over a fresh handle. *)
GeneratorNewAct ==
    /\ \E w \in Windows, conf \in Configs :
          /\ gens[w].status = "none"
          /\ LET made == KeyGeneratorNew(conf, replica_id, w, GPUNew(gpu_config))
             IN  gens' = [gens EXCEPT ![w] =
                     [status |-> IF made.ok THEN "live" ELSE "assert_failed",
                      self |-> made.self, ret |-> <<>>]]
    /\ UNCHANGED <<gpu_config, replica_id, window_index, kg, sealer, unsealer,
                   status, ret, requested, dropped, program, combined,
                   batch_size>>

(* What one next() call makes of the generator g. *)
GeneratorStep(g, fails) ==
    LET r == KeyGeneratorNext(g.self[1], fails)
    IN  [status |-> IF r.outcome = "returned" THEN "live" ELSE r.outcome,
         self |-> <<r.self>>,
         ret |-> IF r.outcome = "returned" THEN Append(g.ret, r.out) ELSE g.ret]

(* Variant: the layer counter is shared, a step of one generator also      *)
(* moves the other generators' counters.                                   *)
GeneratorNextAct_SharedCounter ==
    /\ \E w \in Windows, fails \in BOOLEAN :
          /\ gens[w].status \in {"live", "panicked"}
          /\ Len(gens[w].ret) + FailedCalls(gens[w].self[1].gpu)
                < len(gens[w].self[1]) + MaxExtra
          /\ MayFail(fails)
          /\ LET stepped == GeneratorStep(gens[w], fails)
             IN  gens' = [v \in Windows |->
                    IF v = w THEN stepped
                    ELSE IF gens[v].status = "live"
                    THEN [gens[v] EXCEPT !.self[1].current_layer_index =
                              stepped.self[1].current_layer_index]
                    ELSE gens[v]]
    /\ UNCHANGED <<gpu_config, replica_id, window_index, kg, sealer, unsealer,
                   status, ret, requested, dropped, program, combined,
                   batch_size>>

(* Iterator::next on the generator of window w. *)
GeneratorNextAct ==
    /\ \E w \in Windows, fails \in BOOLEAN :
          /\ gens[w].status \in {"live", "panicked"}
          /\ Len(gens[w].ret) + FailedCalls(gens[w].self[1].gpu)
                < len(gens[w].self[1]) + MaxExtra
          /\ MayFail(fails)
          /\ gens' = [gens EXCEPT ![w] = GeneratorStep(gens[w], fails)]
    /\ UNCHANGED <<gpu_config, replica_id, window_index, kg, sealer, unsealer,
                   status, ret, requested, dropped, program, combined,
                   batch_size>>

NextWindows == GeneratorNewAct \/ GeneratorNextAct

SpecWindows == Init /\ [][NextWindows]_vars

(* The generator of window w as new() leaves it. *)
FreshFor(w) ==
    KeyGeneratorNew(gpu_config, replica_id, w, GPUNew(gpu_config)).self[1]

ItemsOf(w) == Cardinality({i \in 1 .. Len(gens[w].ret) : gens[w].ret[i].some})

(* What the Accelerator of window w answered, call by call. *)
Answers(w) ==
    [i \in 1 .. Len(gens[w].self[1].gpu.calls) |-> gens[w].self[1].gpu.calls[i].ok]

(* The run of a generator alone against an Accelerator that gives the      *)
(* answers oks: its state at the end and the items its calls returned.     *)
RECURSIVE Alone(_, _)
Alone(self, oks) ==
    IF oks = <<>> THEN [self |-> self, items |-> <<>>]
    ELSE LET r == KeyGeneratorNext(self, ~Head(oks))
             rest == Alone(r.self, Tail(oks))
         IN  [self |-> rest.self,
              items |-> (IF r.outcome = "returned" THEN <<r.out>> ELSE <<>>)
                           \o rest.items]

(* C13: with one KeyGenerator per window index, each over its own          *)
(* Accelerator handle, and steps interleaved in any order, every generator *)
(* has issued the calls, returned the items and reached the state of its   *)
(* run alone against the same Accelerator answers, and a step of one       *)
(* generator leaves the other unchanged.                                   *)
C13_WindowsIndependent ==
    /\ [](\A w \in Windows :
            gens[w].status \in {"live", "panicked"} =>
               LET alone == Alone(FreshFor(w), Answers(w))
               IN  /\ gens[w].self[1] = alone.self
                   /\ gens[w].self[1].window_index = w
                   /\ SubSeq(gens[w].ret, 1, ItemsOf(w)) = alone.items
                   /\ \A i \in (ItemsOf(w) + 1) .. Len(gens[w].ret) :
                         /\ gens[w].ret[i] = None
                         /\ KeyGeneratorNext(alone.self, FALSE).out = None)
    /\ [][\A w \in Windows :
            gens'[w] # gens[w] =>
               \A v \in Windows \ {w} : gens'[v] = gens[v]]_vars

C13_Witness ==
    /\ E + B >= 3
    /\ \E w \in Windows :
          /\ gens[w].status = "live"
          /\ FailedCalls(gens[w].self[1].gpu) = 1
          /\ ItemsOf(w) >= 1
          /\ \A v \in Windows \ {w} :
                /\ gens[v].status = "live"
                /\ FailedCalls(gens[v].self[1].gpu) = 0
                /\ ItemsOf(v) >= 2
                /\ ItemsOf(v) < E + B
                /\ gens[v].ret[1] # gens[w].ret[1]

-----------------------------------------------------------------------------
(* sources.rs: the text of the NSE program.  A String is the sequence of   *)
(* its pieces, a number being the piece its decimal formatting gives.      *)

(* The values of the Config fields k, degree_expander, degree_butterfly. *)
Ks == {1, 2}
Degrees == {2, 3}

(* Config with the fields the preamble prints. *)
ProgramConfigs ==
    [num_nodes_window : 1 .. MaxNodes, k : Ks,
     degree_expander : Degrees, degree_butterfly : Degrees,
     num_expander_layers : 0 .. MaxExpander,
     num_butterfly_layers : 0 .. MaxButterfly]

SHA256_SRC == <<"cl/hash/sha256.cl">>
COMMON_SRC == <<"cl/common.cl">>
MASK_SRC == <<"cl/mask.cl">>
EXPANDER_SRC == <<"cl/expander.cl">>
BUTTERFLY_SRC == <<"cl/butterfly.cl">>
COMBINE_SRC == <<"cl/combine.cl">>

(* ff_cl_gen::field::<Fr>("Fr"): the generated field arithmetic. *)
field(name) == <<"ff_cl_gen::field", name>>

BitSize == 24

(* What a function of sources.rs yields: its text, or nothing when the     *)
(* function does not build.                                                *)
Text(pieces) == [built |-> TRUE, text |-> pieces]
NoText == [built |-> FALSE, text |-> <<>>]

(* conf.name: the field of the Config, if Config has a field of that name. *)
Field(conf, name) == IF name \in DOMAIN conf THEN <<conf[name]>> ELSE <<>>

(* config(conf): the format! of the seven #define lines.  Its first        *)
(* argument is conf.n, a field Config does not have.                       *)
sources_config(conf) ==
    LET n == Field(conf, "n")
    IN  IF n = <<>> THEN NoText
        ELSE Text(
          << "#define N (", ToString(n[1]),
             ")\n         #define K (", ToString(conf.k),
             ")\n         #define DEGREE_EXPANDER (",
             ToString(conf.degree_expander),
             ")\n         #define DEGREE_BUTTERFLY (",
             ToString(conf.degree_butterfly),
             ")\n         #define NUM_EXPANDER_LAYERS (",
             ToString(conf.num_expander_layers),
             ")\n         #define NUM_BUTTERFLY_LAYER (",
             ToString(conf.num_butterfly_layers),
             ")\n         #define BIT_SIZE (", ToString(BitSize), ")\n" >>)

(* itertools::join: the elements with sep between consecutive ones. *)
RECURSIVE join(_, _)
join(parts, sep) ==
    IF parts = <<>> THEN <<>>
    ELSE IF Len(parts) = 1 THEN parts[1]
    ELSE parts[1] \o <<sep>> \o join(Tail(parts), sep)

generate_nse_program(conf) ==
    LET preamble == sources_config(conf)
    IN  IF ~preamble.built THEN NoText
        ELSE Text(join(<< preamble.text, field("Fr"), SHA256_SRC, COMMON_SRC,
                          MASK_SRC, EXPANDER_SRC, BUTTERFLY_SRC,
                          COMBINE_SRC >>, "\n"))

GenerateProgramAct ==
    /\ program = <<>>
    /\ \E conf \in ProgramConfigs :
          program' = <<[conf |-> conf, out |-> generate_nse_program(conf)]>>
    /\ UNCHANGED <<gpu_config, replica_id, window_index, kg, sealer, unsealer,
                   status, ret, requested, dropped, gens, combined,
                   batch_size>>

NextProgram == GenerateProgramAct

SpecProgram == Init /\ [][NextProgram]_vars

(* C14 as stated: for every Config generate_nse_program returns a text,    *)
(* and the text is the preamble, the field code for Fr, the hash module,   *)
(* the shared utilities, the mask, expander, butterfly and combine         *)
(* modules, in this order, each once, with exactly one separator between   *)
(* consecutive parts.                                                      *)
C14_Orig ==
    program # <<>> =>
        /\ program[1].out.built
        /\ LET preamble == sources_config(program[1].conf).text
           IN program[1].out.text =
                 preamble \o <<"\n">> \o field("Fr")
                    \o <<"\n">> \o SHA256_SRC \o <<"\n">> \o COMMON_SRC
                    \o <<"\n">> \o MASK_SRC \o <<"\n">> \o EXPANDER_SRC
                    \o <<"\n">> \o BUTTERFLY_SRC \o <<"\n">> \o COMBINE_SRC

-----------------------------------------------------------------------------
(* The default combine_layer of the NarrowStackedExpander trait, called on *)
(* a handle that holds a finished key layer, for any reported batch size.  *)

MaxBatch == 2

(* The layers a caller may hand in: any length, also off the window size. *)
AnyLayers == UNION {DataLayers(n) : n \in 1 .. MaxNodes}

InitCombine ==
    /\ gpu_config \in Configs
    /\ replica_id \in Replicas
    /\ window_index \in Windows
    /\ kg = <<>>
    /\ sealer = <<>>
    /\ unsealer = <<>>
    /\ status = [o \in Objects |-> "none"]
    /\ ret = [o \in Objects |-> <<>>]
    /\ requested = [o \in Objects |-> 0]
    /\ dropped = [o \in Objects |-> <<>>]
    /\ gens = [w \in Windows |-> NoGenerator]
    /\ program = <<>>
    /\ combined = <<>>
    /\ batch_size \in 1 .. MaxBatch

(* The handle after a KeyGenerator has produced all its layers. *)
KeyedHandle == KeyRun(FreshKeyGenerator, len(FreshKeyGenerator)).gpu

CombineLayerAct ==
    /\ combined = <<>>
    /\ \E layer \in AnyLayers, is_decode \in BOOLEAN, fails \in BOOLEAN :
          combined' = <<[gpu |-> KeyedHandle, layer |-> layer,
                         is_decode |-> is_decode,
                         out |-> gpu_combine_layer(KeyedHandle, layer,
                                                   is_decode, fails)]>>
    /\ UNCHANGED <<gpu_config, replica_id, window_index, kg, sealer, unsealer,
                   status, ret, requested, dropped, gens, program, batch_size>>

NextCombine == CombineLayerAct

SpecCombine == InitCombine /\ [][NextCombine]_vars

(* C18: the default combine_layer(layer, is_decode) issues exactly one     *)
(* combine_segment call, with offset 0, the whole layer as its segment and *)
(* the same is_decode, whatever the layer's length is relative to          *)
(* combine_batch_size(), and returns what that call returns.               *)
C18_CombineLayerUnbatched ==
    combined # <<>> =>
        LET c == combined[1]
            before == c.gpu.calls
            after == c.out.gpu.calls
        IN  /\ Len(after) = Len(before) + 1
            /\ SubSeq(after, 1, Len(before)) = before
            /\ after[Len(after)].op = (IF c.is_decode THEN "decode" ELSE "encode")
            /\ after[Len(after)].layer_index = 0
            /\ c.out.gpu.resident = c.gpu.resident
            /\ c.out.ok =>
                  /\ Len(c.out.layer) = Len(c.layer)
                  /\ c.out.layer = CombineNodes(c.layer, c.gpu.resident,
                                                c.is_decode)

C18_Witness ==
    /\ combined # <<>>
    /\ Len(combined[1].layer) > combine_batch_size(combined[1].gpu)
    /\ combined[1].out.ok
    /\ combined[1].is_decode
    /\ combined[1].out.layer # combined[1].layer

====
